---- MODULE Spec2Model ----
(***************************************************************************)
(* Model of src/app.py, the Streamlit grocery list manager.                *)
(*                                                                         *)
(* The script is executed top to bottom once per user interaction ("run"). *)
(* A run owns the session's DataFrame (st.session_state.df), reads the     *)
(* sheet through load_data (cached for 60 s, process wide) and writes it   *)
(* through save_data.  Every session runs the script in a thread of its    *)
(* own and blocks in conn.read and conn.update, so a run is several steps: *)
(* the widget event that starts it (with the code up to the first network  *)
(* call), and one step per network call (with the code that follows it up  *)
(* to the next call or the end of the script).  Sessions interleave        *)
(* between these steps.  A session starts a run only when its previous run *)
(* has ended.                                                              *)
(*                                                                         *)
(* Representation.  A DataFrame is [cols, rows]: the set of its columns    *)
(* and the sequence of its rows, a row being a function from the columns   *)
(* to cell values.  Row labels are the positions 1..n (pandas: 0..n-1; the *)
(* index is a RangeIndex after conn.read and after concat(ignore_index)).  *)
(* Text cells are sequences of characters, "Date Added" is the formatted   *)
(* minute, "Completed" is "True" / "False", or "NaN" for a blank cell of   *)
(* the sheet.  dtype[s] is the dtype of the Completed column of the        *)
(* session's frame: "bool" after load_data or save_data made the column,   *)
(* "object" for the column of pd.DataFrame(columns=[...]).                 *)
(***************************************************************************)
EXTENDS Integers, Sequences, FiniteSets, TLC

VARIABLES remote, cache, session, dtype, run, origin, now, last, acked, ev

vars == <<remote, cache, session, dtype, run, origin, now, last, acked, ev>>

(* ------------------------------ bounds --------------------------------- *)
MaxRows == 2
MaxClock == 4
MaxClockView == 5
MaxClockTwo == 5

Sessions == {1, 2}

(* --------------------------- program constants ------------------------- *)
TicksPerMinute == 2

Columns == <<"Date Added", "Item Needed", "Quantity", "Where to Get", "Urgency", "Completed">>

ColumnSet == {Columns[i] : i \in 1..Len(Columns)}

UrgencyOptions == {"Now", "Soon", "Yesterday!"}

NoTable == [absent |-> TRUE]

(* pd.DataFrame(columns=[...]) *)
EmptyTable == [cols |-> ColumnSet, rows |-> <<>>]

(* A sheet nobody has written to yet: conn.read gives an empty frame. *)
BlankSheet == [cols |-> {}, rows |-> <<>>]

(* ------------------------------ text ----------------------------------- *)
Range(f) == {f[i] : i \in DOMAIN f}

RECURSIVE lstrip(_)
lstrip(t) == IF t # <<>> /\ Head(t) = " " THEN lstrip(Tail(t)) ELSE t

RECURSIVE rstrip(_)
rstrip(t) == IF t # <<>> /\ t[Len(t)] = " " THEN rstrip(SubSeq(t, 1, Len(t) - 1)) ELSE t

(* str.strip() *)
strip(t) == rstrip(lstrip(t))

lower_char(c) == IF c = "M" THEN "m" ELSE IF c = "W" THEN "w" ELSE c

(* str.lower() *)
lower(t) == [i \in 1..Len(t) |-> lower_char(t[i])]

(* Series.str.contains(s, na=False) for a pattern without regex            *)
(* metacharacters: s occurs in t as a substring.                           *)
contains(t, s) == \E i \in 1..(Len(t) - Len(s) + 1) : SubSeq(t, i, i + Len(s) - 1) = s

(* datetime.now().strftime("%Y-%m-%d %H:%M"): the clock cut to the minute. *)
strftime(t) == t \div TicksPerMinute

(* ------------------------------ inputs --------------------------------- *)
(* The widget values a run reads are drawn from these sets.                *)
Form(item, where, urgency) ==
  [item |-> item, quantity |-> <<" ", "2">>, where |-> where, urgency |-> urgency]

Filter(uf, sc, search) == [uf |-> uf, sc |-> sc, search |-> search]

(* the sidebar as it is when nobody touched it *)
DefaultFilter == Filter(UrgencyOptions, TRUE, <<>>)

NoArgs == [item |-> <<>>, quantity |-> <<>>, where |-> <<>>, urgency |-> "Now"]

NoEdit == [pos |-> 0, col |-> "", val |-> <<>>]

(* the value a user types or picks in a cell of the data editor *)
EditValues(col) ==
  CASE col = "Date Added" -> {0}
    [] col = "Item Needed" -> {<<>>}
    [] col = "Quantity" -> {<<>>}
    [] col = "Where to Get" -> {<<"W">>}
    [] col = "Urgency" -> {"Soon"}
    [] col = "Completed" -> {"True"}

(* one session; saves may fail *)
UserInputs ==
  [filters |-> {DefaultFilter, Filter({"Now"}, FALSE, <<>>), Filter({}, TRUE, <<"W", " ">>)},
   forms |-> {Form(<<>>, <<>>, "Now"), Form(<<" ">>, <<>>, "Now"),
              Form(<<"M">>, <<"W">>, "Now"), Form(<<"w", " ">>, <<>>, "Soon")},
   cols |-> ColumnSet,
   oks |-> BOOLEAN,
   maxClock |-> MaxClock]

(* one session; every filter combination, saves succeed *)
ViewInputs ==
  [filters |-> {Filter(uf, sc, search) :
                  uf \in {{}, {"Soon"}, UrgencyOptions}, sc \in BOOLEAN,
                  search \in {<<>>, <<"m", " ">>}},
   forms |-> {Form(<<"M">>, <<>>, "Now"), Form(<<"w", " ">>, <<"M">>, "Soon")},
   cols |-> {"Item Needed", "Completed"},
   oks |-> {TRUE},
   maxClock |-> MaxClockView]

(* two sessions with the sidebar left alone, saves succeed *)
TwoInputs ==
  [filters |-> {DefaultFilter},
   forms |-> {Form(<<"M">>, <<>>, "Now"), Form(<<"w", " ">>, <<>>, "Soon")},
   cols |-> {"Completed"},
   oks |-> {TRUE},
   maxClock |-> MaxClockTwo]

(* ------------------------------ helpers -------------------------------- *)
(* Series.fillna(False) *)
fillna(v) == IF v = "NaN" THEN "False" ELSE v

astype_bool_truthy(v) == IF v = "" THEN "False" ELSE "True"

(* Series.astype(bool): bool(x) of each cell *)
astype_bool(v) == IF v = "False" THEN "False" ELSE "True"

(* load_data: the body that runs on a cache miss *)
load_data(sheet) ==
  LET df == IF sheet.cols = {} \/ sheet.rows = <<>> THEN EmptyTable ELSE sheet
  IN  IF "Completed" \in df.cols
      THEN [cols |-> df.cols,
            rows |-> [i \in 1..Len(df.rows) |->
                       [df.rows[i] EXCEPT !["Completed"] = astype_bool(fillna(@))]]]
      ELSE df

(* @st.cache_data(ttl=60): a hit returns the stored frame, a miss reads *)
cached_load(c, sheet) == IF c # NoTable THEN c ELSE load_data(sheet)

(* save_data, the loop that adds the missing columns (in place) *)
ensure_columns(df) ==
  [cols |-> df.cols \cup ColumnSet,
   rows |-> [i \in 1..Len(df.rows) |->
              [c \in df.cols \cup ColumnSet |->
                 IF c \in df.cols THEN df.rows[i][c]
                 ELSE IF c # "Completed" THEN <<>> ELSE "False"]]]

conn_update_always(sheet, df, ok) == df

conn_update_merge(sheet, df, ok) ==
  IF ok THEN [cols |-> df.cols,
              rows |-> sheet.rows \o SelectSeq(df.rows, LAMBDA r : r \notin Range(sheet.rows))]
  ELSE sheet

(* conn.update(spreadsheet=SHEET_URL, data=df): replaces the whole sheet, *)
(* or raises and leaves it as it was                                      *)
conn_update(sheet, df, ok) == IF ok THEN df ELSE sheet

item_valid_nostrip(item) == item # <<>>

(* if not item_needed.strip(): st.error(...) else: ... *)
item_valid(item) == strip(item) # <<>>

(* the dict built by the add form *)
new_row(t, args) ==
  [c \in ColumnSet |->
     CASE c = "Date Added" -> strftime(t)
       [] c = "Item Needed" -> strip(args.item)
       [] c = "Quantity" -> strip(args.quantity)
       [] c = "Where to Get" -> strip(args.where)
       [] c = "Urgency" -> args.urgency
       [] c = "Completed" -> "False"]

concat_front(df, row) == [cols |-> df.cols \cup DOMAIN row, rows |-> <<row>> \o df.rows]

(* pd.concat([df, pd.DataFrame([new_row])], ignore_index=True) *)
concat(df, row) == [cols |-> df.cols \cup DOMAIN row, rows |-> Append(df.rows, row)]

(* the filtered data block: the labels of the rows that are kept *)
computeFilteredView(df, urgency_filter, show_completed, search_text) ==
  LET all == [i \in 1..Len(df.rows) |-> i]
      v1 == IF urgency_filter # {}
            THEN SelectSeq(all, LAMBDA i : df.rows[i]["Urgency"] \in urgency_filter)
            ELSE all
      v2 == IF ~show_completed
            THEN SelectSeq(v1, LAMBDA i : df.rows[i]["Completed"] = "False")
            ELSE v1
      s == lower(strip(search_text))
  IN  IF strip(search_text) # <<>>
      THEN SelectSeq(v2, LAMBDA i : \/ contains(lower(df.rows[i]["Item Needed"]), s)
                                    \/ contains(lower(df.rows[i]["Where to Get"]), s))
      ELSE v2

(* the labels line 159 keeps *)
urgency_kept(df, urgency_filter) ==
  IF urgency_filter # {} /\ "Urgency" \in df.cols
  THEN SelectSeq([i \in 1..Len(df.rows) |-> i],
                 LAMBDA i : df.rows[i]["Urgency"] \in urgency_filter)
  ELSE [i \in 1..Len(df.rows) |-> i]

(* line 162 on an object-dtype Completed column: ~ is not a boolean mask. *)
(* Without rows df[...] takes it for an empty list of column labels.      *)
mask_drops_columns(df, dt, urgency_filter, show_completed) ==
  /\ ~show_completed
  /\ "Completed" \in df.cols
  /\ dt = "object"
  /\ urgency_kept(df, urgency_filter) = <<>>

(* With rows ~ gives -1 and -2, labels no column has: df[...] raises.     *)
mask_raises(df, dt, urgency_filter, show_completed) ==
  /\ ~show_completed
  /\ "Completed" \in df.cols
  /\ dt = "object"
  /\ urgency_kept(df, urgency_filter) # <<>>

(* the columns of the filtered copy after line 162 *)
view_columns(df, dt, urgency_filter, show_completed) ==
  IF mask_drops_columns(df, dt, urgency_filter, show_completed) THEN {} ELSE df.cols

(* the filtered data block raises KeyError when it reads a column the     *)
(* frame, or the filtered copy, lacks                                     *)
view_raises(df, dt, urgency_filter, show_completed, search_text) ==
  \/ urgency_filter # {} /\ "Urgency" \notin df.cols
  \/ ~show_completed /\ "Completed" \notin df.cols
  \/ mask_raises(df, dt, urgency_filter, show_completed)
  \/ /\ strip(search_text) # <<>>
     /\ ~({"Item Needed", "Where to Get"}
            \subseteq view_columns(df, dt, urgency_filter, show_completed))

(* styled_urgency (line 67) and completed_mask (line 207) read Urgency    *)
(* and Completed of the filtered copy: KeyError when it lacks one         *)
styled_raises(cols) == ~({"Urgency", "Completed"} \subseteq cols)

(* the dtypes pd.concat can give the Completed column: an empty object    *)
(* column joined with a bool one is bool or object, by the pandas version *)
concat_dtypes(df, dt) ==
  IF "Completed" \notin df.cols THEN {"object"}
  ELSE IF df.rows = <<>> /\ dt = "object" THEN {"bool", "object"}
  ELSE {dt}

(* st.data_editor(df, num_rows="fixed"): the view with the user's edit *)
data_editor(rows, edit) ==
  IF edit.pos \in 1..Len(rows)
  THEN [rows EXCEPT ![edit.pos] = [@ EXCEPT ![edit.col] = edit.val]]
  ELSE rows

loc_assign_positional(df, view, edited) ==
  [cols |-> df.cols,
   rows |-> [i \in 1..Len(df.rows) |-> IF i <= Len(edited) THEN edited[i] ELSE df.rows[i]]]

(* st.session_state.df.loc[edited_df.index, :] = edited_df *)
loc_assign(df, view, edited) ==
  [cols |-> df.cols,
   rows |-> [i \in 1..Len(df.rows) |->
              IF \E k \in 1..Len(view) : view[k] = i
              THEN edited[CHOOSE k \in 1..Len(view) : view[k] = i]
              ELSE df.rows[i]]]

(* ------------------------- one run of the script ----------------------- *)
(* The run a session is in: the widget values it reads, where it stands    *)
(* (pc: "idle", "read" before conn.read of line 21, "save1" before the     *)
(* conn.update of the button or form handler, "save2" before the           *)
(* conn.update of the write-back) and what it did so far.                  *)
NoRun ==
  [pc |-> "idle", op |-> "init", t |-> 0,
   uf |-> UrgencyOptions, sc |-> TRUE, search |-> <<>>, args |-> NoArgs, edit |-> NoEdit,
   before |-> NoTable, remoteBefore |-> BlankSheet, sheetRead |-> NoTable, hit |-> FALSE,
   exc |-> "none", err |-> "", tried |-> 0, updates |-> 0,
   viewed |-> FALSE, view |-> <<>>, edited |-> <<>>, viewCols |-> {}]

(* a run started by widget op with the sidebar at f *)
StartRun(s, op, f, args, edit) ==
  [NoRun EXCEPT !.op = op, !.t = now, !.uf = f.uf, !.sc = f.sc, !.search = f.search,
                !.args = args, !.edit = edit,
                !.before = session[s], !.remoteBefore = remote]

(* The script from the filtered data block to the call of conn.update in  *)
(* the write-back (lines 155-196): gives the frame and the run as they    *)
(* are when the script blocks in conn.update ("save2") or has ended.      *)
WriteBack(df, dt, r) ==
  LET raises == view_raises(df, dt, r.uf, r.sc, r.search)
      view == IF raises THEN <<>> ELSE computeFilteredView(df, r.uf, r.sc, r.search)
      shown == [k \in 1..Len(view) |-> df.rows[view[k]]]
      edited == data_editor(shown, r.edit)
  IN  [df |-> IF view # <<>> THEN ensure_columns(loc_assign(df, view, edited)) ELSE df,
       r |-> [r EXCEPT !.pc = IF view # <<>> THEN "save2" ELSE "idle",
                       !.exc = IF raises THEN "KeyError" ELSE "none",
                       !.viewed = ~raises, !.view = view, !.edited = edited,
                       !.viewCols = IF raises THEN {}
                                    ELSE view_columns(df, dt, r.uf, r.sc)]]

(* what the run that ended did: the observations the properties use *)
Observe(s, r) ==
  [s |-> s, op |-> r.op, before |-> r.before, remoteBefore |-> r.remoteBefore,
   sheetRead |-> r.sheetRead,
   prevExc |-> IF last.s = s THEN last.exc ELSE "none",
   hit |-> r.hit, exc |-> r.exc, err |-> r.err, tried |-> r.tried, updates |-> r.updates,
   viewed |-> r.viewed, view |-> r.view, edited |-> r.edited,
   uf |-> r.uf, sc |-> r.sc, search |-> r.search, args |-> r.args]

(* the rows a session added with a successful save and no error reported *)
Ack(s, r) ==
  IF r.op = "add" /\ r.exc = "none" /\ r.err = "" /\ r.updates >= 1
  THEN [acked EXCEPT ![s] = @ \cup {new_row(r.t, r.args)}]
  ELSE acked

(* the session's frame is df and its run goes on at r.pc, or has ended *)
Proceed(s, df, dt, r) ==
  /\ session' = [session EXCEPT ![s] = df]
  /\ dtype' = [dtype EXCEPT ![s] = dt]
  /\ IF r.pc = "idle"
     THEN /\ run' = [run EXCEPT ![s] = NoRun]
          /\ last' = Observe(s, r)
          /\ acked' = Ack(s, r)
     ELSE /\ run' = [run EXCEPT ![s] = r]
          /\ UNCHANGED <<last, acked>>

NoEvent == [s |-> 0, call |-> "none", ok |-> TRUE]

(* ------------------------------ actions -------------------------------- *)
NoLast ==
  [s |-> 0, op |-> "init", before |-> NoTable, remoteBefore |-> BlankSheet,
   sheetRead |-> NoTable,
   prevExc |-> "none", hit |-> FALSE, exc |-> "none", err |-> "", tried |-> 0, updates |-> 0,
   viewed |-> FALSE, view |-> <<>>, edited |-> <<>>,
   uf |-> UrgencyOptions, sc |-> TRUE, search |-> <<>>, args |-> NoArgs]

Init ==
  /\ remote = BlankSheet
  /\ cache = NoTable
  /\ session = [s \in Sessions |-> NoTable]
  /\ dtype = [s \in Sessions |-> "bool"]
  /\ run = [s \in Sessions |-> NoRun]
  /\ origin = [s \in Sessions |-> NoTable]
  /\ now = 0
  /\ last = NoLast
  /\ acked = [s \in Sessions |-> {}]
  /\ ev = NoEvent

(* First run of a session: "df" is not in st.session_state, so the frame  *)
(* comes from load_data, every widget has its default value.  A cache hit *)
(* gives the frame at once; a miss goes to conn.read.                     *)
FirstRun(s, U) ==
  /\ session[s] = NoTable
  /\ run[s].pc = "idle"
  /\ now < U.maxClock
  /\ now' = now + 1
  /\ LET r == StartRun(s, "none", DefaultFilter, NoArgs, NoEdit)
     IN  IF cache # NoTable
         THEN LET df == cached_load(cache, remote)
                  w == WriteBack(df, "bool", [r EXCEPT !.hit = TRUE])
              IN  /\ Proceed(s, w.df, "bool", w.r)
                  /\ origin' = [origin EXCEPT ![s] = df]
         ELSE /\ run' = [run EXCEPT ![s] = [r EXCEPT !.pc = "read"]]
              /\ UNCHANGED <<session, dtype, origin, last, acked>>
  /\ UNCHANGED <<remote, cache, ev>>

(* conn.read in load_data returns or raises; the frame is cached and the  *)
(* script goes on to the write-back.                                      *)
ConnRead(s, U) ==
  /\ run[s].pc = "read"
  /\ \E ok \in U.oks :
       /\ ev' = [s |-> s, call |-> "read", ok |-> ok]
       /\ IF ok
          THEN LET df == cached_load(NoTable, remote)
                   w == WriteBack(df, "bool", [run[s] EXCEPT !.sheetRead = remote])
               IN  /\ cache' = df
                   /\ origin' = [origin EXCEPT ![s] = df]
                   /\ Proceed(s, w.df, "bool", w.r)
          ELSE /\ Proceed(s, session[s], dtype[s],
                          [run[s] EXCEPT !.pc = "idle", !.exc = "load"])
               /\ UNCHANGED <<cache, origin>>
  /\ UNCHANGED <<remote, now>>

(* A filter widget changed: the script runs with no button pressed. *)
Rerun(s, U) ==
  /\ session[s] # NoTable
  /\ run[s].pc = "idle"
  /\ now < U.maxClock
  /\ now' = now + 1
  /\ \E f \in U.filters :
       LET w == WriteBack(session[s], dtype[s], StartRun(s, "none", f, NoArgs, NoEdit))
       IN  Proceed(s, w.df, dtype[s], w.r)
  /\ UNCHANGED <<remote, cache, origin, ev>>

(* "Create New List" pressed: the empty frame, then save_data. *)
CreateNewList(s, U) ==
  /\ session[s] # NoTable
  /\ run[s].pc = "idle"
  /\ now < U.maxClock
  /\ now' = now + 1
  /\ \E f \in U.filters :
       Proceed(s, ensure_columns(EmptyTable), "object",
               [StartRun(s, "new", f, NoArgs, NoEdit) EXCEPT !.pc = "save1"])
  /\ UNCHANGED <<remote, cache, origin, ev>>

(* "Add to List" pressed with the form's fields: the error, or the row    *)
(* appended and save_data.                                                *)
AddItem(s, U) ==
  /\ session[s] # NoTable
  /\ run[s].pc = "idle"
  /\ now < U.maxClock
  /\ Len(session[s].rows) < MaxRows
  /\ now' = now + 1
  /\ \E f \in U.filters, args \in U.forms :
       LET r == StartRun(s, "add", f, args, NoEdit)
       IN  IF item_valid(args.item)
           THEN \E dt \in concat_dtypes(session[s], dtype[s]) :
                  Proceed(s, ensure_columns(concat(session[s], new_row(now, args))), dt,
                          [r EXCEPT !.pc = "save1"])
           ELSE LET w == WriteBack(session[s], dtype[s],
                                   [r EXCEPT !.err = "Item Needed is required."])
                IN  Proceed(s, w.df, dtype[s], w.r)
  /\ UNCHANGED <<remote, cache, origin, ev>>

(* A cell of the data editor edited. *)
EditCell(s, U) ==
  /\ session[s] # NoTable
  /\ run[s].pc = "idle"
  /\ now < U.maxClock
  /\ now' = now + 1
  /\ \E f \in U.filters :
       /\ ~view_raises(session[s], dtype[s], f.uf, f.sc, f.search)
       /\ \E pos \in 1..Len(computeFilteredView(session[s], f.uf, f.sc, f.search)),
             col \in U.cols :
            \E val \in EditValues(col) :
               LET edit == [pos |-> pos, col |-> col, val |-> val]
                   w == WriteBack(session[s], dtype[s],
                                  StartRun(s, "edit", f, NoArgs, edit))
               IN  Proceed(s, w.df, dtype[s], w.r)
  /\ UNCHANGED <<remote, cache, origin, ev>>

(* conn.update of save_data in the button or form handler (lines 92 and   *)
(* 152) returns or raises; when it returns the script goes on to the      *)
(* write-back.                                                            *)
SaveHandler(s, U) ==
  /\ run[s].pc = "save1"
  /\ \E ok \in U.oks :
       /\ ev' = [s |-> s, call |-> "update", ok |-> ok]
       /\ remote' = conn_update(remote, session[s], ok)
       /\ IF ok
          THEN LET w == WriteBack(session[s], dtype[s],
                                  [run[s] EXCEPT !.tried = @ + 1, !.updates = @ + 1])
               IN  Proceed(s, w.df, dtype[s], w.r)
          ELSE Proceed(s, session[s], dtype[s],
                       [run[s] EXCEPT !.pc = "idle", !.exc = "save", !.tried = @ + 1])
  /\ UNCHANGED <<cache, origin, now>>

(* conn.update of save_data in the write-back (line 196) returns or       *)
(* raises; when it returns the styled view (lines 198-217) reads the      *)
(* filtered copy and the run ends, with KeyError when a column is not in  *)
(* the copy.                                                              *)
SaveWriteBack(s, U) ==
  /\ run[s].pc = "save2"
  /\ \E ok \in U.oks :
       /\ ev' = [s |-> s, call |-> "update", ok |-> ok]
       /\ remote' = conn_update(remote, session[s], ok)
       /\ Proceed(s, session[s], dtype[s],
                  [run[s] EXCEPT !.pc = "idle",
                                 !.exc = IF ~ok THEN "save"
                                         ELSE IF styled_raises(run[s].viewCols) THEN "KeyError"
                                         ELSE "none",
                                 !.tried = @ + 1,
                                 !.updates = IF ok THEN @ + 1 ELSE @])
  /\ UNCHANGED <<cache, origin, now>>

(* The 60 s time to live of the load_data cache runs out. *)
CacheExpire ==
  /\ cache # NoTable
  /\ cache' = NoTable
  /\ UNCHANGED <<remote, session, dtype, run, origin, now, last, acked, ev>>

(* one session, saves and reads may fail *)
Next ==
  \/ FirstRun(1, UserInputs)
  \/ ConnRead(1, UserInputs)
  \/ Rerun(1, UserInputs)
  \/ CreateNewList(1, UserInputs)
  \/ AddItem(1, UserInputs)
  \/ EditCell(1, UserInputs)
  \/ SaveHandler(1, UserInputs)
  \/ SaveWriteBack(1, UserInputs)

Spec == Init /\ [][Next]_vars

(* one session, the filters varied *)
NextView ==
  \/ FirstRun(1, ViewInputs)
  \/ ConnRead(1, ViewInputs)
  \/ Rerun(1, ViewInputs)
  \/ CreateNewList(1, ViewInputs)
  \/ AddItem(1, ViewInputs)
  \/ EditCell(1, ViewInputs)
  \/ SaveHandler(1, ViewInputs)
  \/ SaveWriteBack(1, ViewInputs)

SpecView == Init /\ [][NextView]_vars

(* two sessions on the same sheet, each in its own thread *)
NextTwo ==
  \/ \E s \in Sessions : FirstRun(s, TwoInputs)
  \/ \E s \in Sessions : ConnRead(s, TwoInputs)
  \/ \E s \in Sessions : Rerun(s, TwoInputs)
  \/ \E s \in Sessions : CreateNewList(s, TwoInputs)
  \/ \E s \in Sessions : AddItem(s, TwoInputs)
  \/ \E s \in Sessions : EditCell(s, TwoInputs)
  \/ \E s \in Sessions : SaveHandler(s, TwoInputs)
  \/ \E s \in Sessions : SaveWriteBack(s, TwoInputs)
  \/ CacheExpire

SpecTwo == Init /\ [][NextTwo]_vars

(* ------------- first runs on a sheet its owner has written --------------- *)
RTRow(item, completed) ==
  [c \in ColumnSet |->
     CASE c = "Date Added" -> 0
       [] c = "Item Needed" -> item
       [] c = "Quantity" -> <<"2">>
       [] c = "Where to Get" -> <<>>
       [] c = "Urgency" -> "Now"
       [] c = "Completed" -> completed]

RTRows == {RTRow(<<"M">>, completed) : completed \in {"True", "False", "NaN"}}

RTCols == {ColumnSet, ColumnSet \ {"Completed"}, ColumnSet \ {"Quantity", "Where to Get"}}

(* sheets as their owner may have left them: columns missing, cells blank *)
RTSheets ==
  {[cols |-> C, rows |-> [i \in 1..n |-> [c \in C |-> rs[i][c]]]] :
     <<C, n, rs>> \in {<<C, n, rs>> \in RTCols \X (0..MaxRows) \X [1..MaxRows -> RTRows] :
                         \A i \in (n + 1)..MaxRows : rs[i] = RTRow(<<"M">>, "True")}}

InitRT ==
  /\ remote \in RTSheets
  /\ cache = NoTable
  /\ session = [s \in Sessions |-> NoTable]
  /\ dtype = [s \in Sessions |-> "bool"]
  /\ run = [s \in Sessions |-> NoRun]
  /\ origin = [s \in Sessions |-> NoTable]
  /\ now = 0
  /\ last = NoLast
  /\ acked = [s \in Sessions |-> {}]
  /\ ev = NoEvent

(* what the owner of the sheet may leave in it at any moment *)
OwnerSheets ==
  {EmptyTable,
   [cols |-> ColumnSet, rows |-> <<RTRow(<<"M">>, "False"), RTRow(<<"w">>, "True")>>]}

(* The sheet at SHEET_URL is edited in the spreadsheet itself. *)
SheetEdited ==
  /\ \E sheet \in OwnerSheets : sheet # remote /\ remote' = sheet
  /\ ev' = [s |-> 0, call |-> "owner", ok |-> TRUE]
  /\ UNCHANGED <<cache, session, dtype, run, origin, now, last, acked>>

(* load_data then save_data with nothing of the script's between them is  *)
(* what a session's first run does when the default view has rows.        *)
NextRT ==
  \/ \E s \in Sessions : FirstRun(s, TwoInputs)
  \/ \E s \in Sessions : ConnRead(s, TwoInputs)
  \/ \E s \in Sessions : SaveWriteBack(s, TwoInputs)
  \/ CacheExpire
  \/ SheetEdited

SpecRT == InitRT /\ [][NextRT]_vars

(* ------------------------------ properties ------------------------------ *)
RowsOf(df) == Range(df.rows)

Labels(n) == [i \in 1..n |-> i]

(* the session of the last run that ended has not started another run *)
AtEnd == last.s \in Sessions /\ run[last.s].pc = "idle"

(* session s is in conn.update in this step (the step sets ev) *)
Updates(s) == run[s].pc \in {"save1", "save2"} /\ run'[s] # run[s]

(* C1: within one session, when a run that changes the list (Create New   *)
(* List, a valid add, an edit) had a conn.update that returned, the sheet  *)
(* holds exactly the session's frame, row for row, from the end of the run *)
(* until the next run starts.                                              *)
C1_RemoteEqualsTable ==
  (/\ AtEnd
   /\ last.op \in {"new", "add", "edit"}
   /\ last.op = "add" => last.err = ""
   /\ last.updates >= 1)
  => remote = session[last.s]

C1_Witness ==
  /\ AtEnd
  /\ last.op = "edit"
  /\ last.updates >= 1
  /\ Len(remote.rows) = 2
  /\ remote # last.remoteBefore
  /\ remote = session[last.s]

(* C2: an add whose item is not empty after trimming gives a frame one    *)
(* row longer; the old rows keep position and content; the new row is the *)
(* last one, with the trimmed item and Completed false.                   *)
C2_AddAppends ==
  (AtEnd /\ last.op = "add" /\ strip(last.args.item) # <<>>)
  => LET b == last.before.rows
         a == session[last.s].rows
     IN  /\ Len(a) = Len(b) + 1
         /\ \A i \in 1..Len(b) : a[i] = b[i]
         /\ a[Len(a)]["Item Needed"] = strip(last.args.item)
         /\ a[Len(a)]["Completed"] = "False"

C2_Witness ==
  /\ AtEnd
  /\ last.op = "add"
  /\ last.args.item = <<"w", " ">>
  /\ Len(last.before.rows) = 1
  /\ Len(session[last.s].rows) = 2
  /\ session[last.s].rows[2]["Item Needed"] = <<"w">>

(* C3: with no urgency selected, completed items shown and no search     *)
(* text, the view has no rows.                                            *)
C3_EmptyUrgencyNoRows ==
  (AtEnd /\ last.viewed /\ last.uf = {} /\ last.sc /\ last.search = <<>>)
  => last.view = <<>>

(* C4: no row of the sheet has an empty "Item Needed".                    *)
C4_ItemNeverEmpty ==
  \A i \in 1..Len(remote.rows) : remote.rows[i]["Item Needed"] # <<>>

(* C5: when conn.update raises after the run changed the frame, the       *)
(* frame keeps the change, the sheet keeps its content, conn.update was   *)
(* called once and not again; and when the session's next run has a       *)
(* conn.update that returns, the sheet equals the frame.                  *)
C5_FailedSaveKeepsMemory ==
  AtEnd =>
  /\ (last.exc = "save" /\ last.updates = 0)
     => /\ remote = last.remoteBefore
        /\ last.tried = 1
        /\ LET b == last.before.rows
               a == session[last.s].rows
           IN  CASE last.op = "new" -> a = <<>>
                 [] last.op = "add" /\ last.err = "" ->
                      /\ Len(a) = Len(b) + 1
                      /\ \A i \in 1..Len(b) : a[i] = b[i]
                      /\ a[Len(a)]["Item Needed"] = strip(last.args.item)
                 [] last.op = "edit" ->
                      /\ Len(a) = Len(b)
                      /\ \A k \in 1..Len(last.view) : a[last.view[k]] = last.edited[k]
                 [] OTHER -> a = b
  /\ (last.prevExc = "save" /\ last.updates >= 1) => remote = session[last.s]

C5_Witness ==
  /\ AtEnd
  /\ last.prevExc = "save"
  /\ last.updates >= 1
  /\ last.remoteBefore # last.before
  /\ Len(remote.rows) >= 1
  /\ remote = session[last.s]

(* C6: a conn.update that returns replaces the whole sheet by the frame   *)
(* of the session that calls it: a row another session added with a       *)
(* successful save, and that the calling session does not hold, is not in *)
(* the sheet when the call returns.                                       *)
C6_SaveReplacesSheet ==
  [][\A s \in Sessions :
       (Updates(s) /\ ev'.ok)
       => \A t \in Sessions \ {s} :
            \A r \in acked[t] : r \notin RowsOf(session[s]) => r \notin RowsOf(remote')]_vars

(* both sessions started from the same frame, both adds ended with a save *)
(* that returned and no error, no run is under way, and the sheet lacks   *)
(* the row the other session added and still holds                        *)
C6_Witness ==
  /\ \A s \in Sessions : run[s].pc = "idle"
  /\ last.op = "add" /\ last.exc = "none" /\ last.err = "" /\ last.updates >= 1
  /\ origin[1] # NoTable
  /\ origin[1] = origin[2]
  /\ \E t \in Sessions \ {last.s} :
       \E r \in acked[t] : r \in RowsOf(session[t]) /\ r \notin RowsOf(remote)
  /\ \E r \in acked[last.s] : r \in RowsOf(remote)

(* C7: a run in which the user edits nothing and presses nothing leaves   *)
(* the frame as it was and calls conn.update not at all.                  *)
C7_ViewIsPure ==
  (AtEnd /\ last.op = "none" /\ last.viewed /\ last.before # NoTable)
  => /\ session[last.s] = last.before
     /\ last.tried = 0

(* C8: an add whose item is empty or only blanks reports the validation   *)
(* error and leaves the frame as it was.                                  *)
C8_InvalidAddRejected ==
  (AtEnd /\ last.op = "add" /\ strip(last.args.item) = <<>>)
  => /\ last.err = "Item Needed is required."
     /\ session[last.s] = last.before

C8_Witness ==
  /\ AtEnd
  /\ last.op = "add"
  /\ last.args.item = <<" ">>
  /\ last.err = "Item Needed is required."
  /\ Len(last.before.rows) = 1
  /\ session[last.s] = last.before

(* the sheet has the six columns and a boolean in every Completed cell *)
Canonical(sheet) ==
  /\ sheet.cols = ColumnSet
  /\ \A i \in 1..Len(sheet.rows) : sheet.rows[i]["Completed"] \in {"True", "False"}

(* session s, in its first run, is in the conn.update that follows its    *)
(* load_data with nothing but the unedited write-back between them        *)
SavesLoaded(s) == Updates(s) /\ run[s].before = NoTable

(* C9 as claimed: load followed at once by save of the loaded frame       *)
(* leaves the sheet as it was, whatever the sheet holds.                  *)
C9_RoundTripAnySheet ==
  [][\A s \in Sessions : (SavesLoaded(s) /\ ev'.ok) => remote' = remote]_vars

(* C9 amended: load followed at once by save of the loaded frame leaves   *)
(* the sheet as it was when load_data read the sheet (no cache hit), the  *)
(* sheet is still what was read, and it has exactly the six columns and a *)
(* boolean in every Completed cell.                                       *)
C9_RoundTripCanonical ==
  [][\A s \in Sessions :
       (/\ SavesLoaded(s) /\ ev'.ok
        /\ ~run[s].hit
        /\ run[s].sheetRead = remote
        /\ Canonical(remote))
       => remote' = remote]_vars

C9_Witness ==
  /\ AtEnd
  /\ last.op = "none"
  /\ last.before = NoTable
  /\ ~last.hit
  /\ last.updates = 1
  /\ ev = [s |-> last.s, call |-> "update", ok |-> TRUE]
  /\ Canonical(last.sheetRead)
  /\ Len(last.sheetRead.rows) = 2
  /\ \E i \in 1..2 : last.sheetRead.rows[i]["Completed"] = "False"
  /\ remote = last.sheetRead

(* C10: an edit run overwrites the rows of the frame the view maps to,    *)
(* each by its edited row, and no other row; length and order stay.       *)
C10_EditWritesViewRows ==
  (AtEnd /\ last.op = "edit" /\ last.viewed)
  => LET b == last.before.rows
         a == session[last.s].rows
     IN  /\ Len(a) = Len(b)
         /\ Len(last.edited) = Len(last.view)
         /\ \A k \in 1..Len(last.view) : a[last.view[k]] = last.edited[k]
         /\ \A i \in 1..Len(b) : i \notin Range(last.view) => a[i] = b[i]

C10_Witness ==
  /\ AtEnd
  /\ last.op = "edit"
  /\ last.view = <<2>>
  /\ Len(last.before.rows) = 2
  /\ session[last.s].rows[2] # last.before.rows[2]
  /\ session[last.s].rows[1] = last.before.rows[1]

====
